---- MODULE Spec2Model ----
(***************************************************************************)
(* A model of the VideoExtractMCP media tools: the dimension resolver      *)
(* get_format_dimensions, the caption filter builder                       *)
(* build_drawtext_filters, the crossfade assembler build_crossfade_concat  *)
(* (src/src/utils.py) and the two tool entry points extract_clip and       *)
(* create_supercut (src/src/server.py).                                    *)
(*                                                                         *)
(* Python strings are sequences of one-character strings.  Python's None   *)
(* is the record None below, a present value v is Some(v).  A call either  *)
(* returns or raises; an outcome record says which.                        *)
(***************************************************************************)
EXTENDS Integers, Sequences, FiniteSets, TLC

VARIABLES
    \* get_format_dimensions(output_format, custom_ratio)
    gfd_pc,          \* "idle" | "call" | "done"
    output_format,   \* the format tag
    custom_ratio,    \* None or Some(string)
    gfd_out,         \* the outcome of the call
    \* build_drawtext_filters(stream, captions, video_width, video_height, caption_style)
    bdf_pc,          \* "idle" | "entry" | "loop" | "done"
    captions,        \* the caption list: records [text, start, end]
    video_width,
    video_height,
    caption_style,   \* the style keys, each None or Some(value)
    cap_i,           \* position of `for caption in captions` (1-based)
    stream,          \* the filters chained onto the stream so far, in order
    \* extract_clip / create_supercut
    tool_pc,         \* "idle" | "entry" | "resolve" | "graph" | "captions" | "run" | "done"
    tool,            \* which tool is called
    args,            \* the call's arguments, and whether file_path exists
    dims,            \* what get_format_dimensions returned
    effects,         \* the external work done so far: "probe", "run", "write"
    tool_out,        \* how the call ended
    \* build_crossfade_concat(file_path, segments, transition_duration)
    xf_pc,           \* "idle" | "entry" | "loop" | "done"
    xf_segments,     \* the (start, end) pairs
    transition_duration,
    xf_i,            \* position of `for i in range(1, len(clips_v))`
    cumulative,      \* the running length of the assembled video
    xfades,          \* the offsets of the xfade filters chained so far
    xf_out           \* how the call ended

dimVars == <<gfd_pc, output_format, custom_ratio, gfd_out>>
capVars == <<bdf_pc, captions, video_width, video_height, caption_style, cap_i, stream>>
toolVars == <<tool_pc, tool, args, dims, effects, tool_out>>
xfVars == <<xf_pc, xf_segments, transition_duration, xf_i, cumulative, xfades, xf_out>>
vars == <<dimVars, capVars, toolVars, xfVars>>

-----------------------------------------------------------------------------
(* Python values *)

None == [none |-> TRUE, val |-> <<>>]
Some(v) == [none |-> FALSE, val |-> v]

\* bool(x) of an Optional[str]: None and '' are falsy
Truthy(opt) == ~opt.none /\ opt.val # <<>>

Abs(n) == IF n < 0 THEN -n ELSE n

\* int(a / b) for integers a, b with b # 0: true division, then truncation
\* toward zero.  The quotients that occur are far below 2^53, where the
\* double nearest to a/b has the same integer part as a/b.
TruncDiv(a, b) ==
    LET q == Abs(a) \div Abs(b)
    IN  IF (a < 0) = (b < 0) THEN q ELSE -q

Digits == <<"0", "1", "2", "3", "4", "5", "6", "7", "8", "9">>
IsDigit(c) == \E d \in 1..10 : Digits[d] = c
DigitVal(c) == (CHOOSE d \in 1..10 : Digits[d] = c) - 1
IsSpace(c) == c = " "

\* str.split(sep) for a one-character sep: count(sep) + 1 parts, empty ones kept
RECURSIVE SplitOn(_, _)
SplitOn(s, sep) ==
    IF \A i \in 1..Len(s) : s[i] # sep
    THEN <<s>>
    ELSE LET i == CHOOSE j \in 1..Len(s) :
                      s[j] = sep /\ \A k \in 1..(j - 1) : s[k] # sep
         IN  <<SubSeq(s, 1, i - 1)>> \o SplitOn(SubSeq(s, i + 1, Len(s)), sep)

\* str.strip(): leading and trailing whitespace removed
RECURSIVE LStrip(_)
LStrip(s) ==
    IF s # <<>> /\ IsSpace(s[1]) THEN LStrip(Tail(s)) ELSE s

RECURSIVE RStrip(_)
RStrip(s) ==
    IF s # <<>> /\ IsSpace(s[Len(s)]) THEN RStrip(SubSeq(s, 1, Len(s) - 1)) ELSE s

Strip(s) == RStrip(LStrip(s))

\* The digit part of an int() literal: digits, with single underscores
\* allowed between two digits.
DigitsOk(s) ==
    /\ s # <<>>
    /\ \A i \in 1..Len(s) : IsDigit(s[i]) \/ s[i] = "_"
    /\ IsDigit(s[1]) /\ IsDigit(s[Len(s)])
    /\ \A i \in 1..(Len(s) - 1) : ~(s[i] = "_" /\ s[i + 1] = "_")

RECURSIVE DigitsVal(_, _)
DigitsVal(s, acc) ==
    IF s = <<>> THEN acc
    ELSE IF s[1] = "_" THEN DigitsVal(Tail(s), acc)
    ELSE DigitsVal(Tail(s), 10 * acc + DigitVal(s[1]))

\* int(str): surrounding whitespace stripped, an optional sign, then digits;
\* anything else raises ValueError.
PyInt(str) ==
    LET s    == Strip(str)
        sgn  == s # <<>> /\ s[1] \in {"+", "-"}
        body == IF sgn THEN Tail(s) ELSE s
    IN  IF DigitsOk(body)
        THEN [ok |-> TRUE,
              val |-> IF sgn /\ s[1] = "-" THEN -DigitsVal(body, 0)
                      ELSE DigitsVal(body, 0)]
        ELSE [ok |-> FALSE, val |-> 0]

-----------------------------------------------------------------------------
(* get_format_dimensions *)

ShortWidth == 1080
ShortHeight == 1920

\* Outcomes.  dims = <<>> is the returned None; a returned pair is <<w, h>>.
Return(v) == [kind |-> "return", dims |-> v, exc |-> "-"]
Raise(e) == [kind |-> "raise", dims |-> <<>>, exc |-> e]
NoOutcome == [kind |-> "none", dims |-> <<>>, exc |-> "-"]

\* w - w % 2: Python's % takes the sign of the divisor, as TLA+'s does
EvenDown(n) == n - (n % 2)

\* The custom branch once the ratio string is known to be non-empty
CustomDimensions(ratio) ==
    LET parts == SplitOn(ratio, ":")
    IN  IF Len(parts) # 2 THEN Raise("ValueError")
        ELSE LET pw == PyInt(parts[1])
                 ph == PyInt(parts[2])
                 rw == pw.val
                 rh == ph.val
             IN  IF ~pw.ok \/ ~ph.ok THEN Raise("ValueError")
                 ELSE IF rw >= rh
                 THEN IF rw = 0 THEN Raise("ZeroDivisionError")
                      ELSE Return(<<EvenDown(ShortWidth),
                                    EvenDown(TruncDiv(ShortWidth * rh, rw))>>)
                 ELSE IF rh = 0 THEN Raise("ZeroDivisionError")
                      ELSE Return(<<EvenDown(TruncDiv(ShortHeight * rw, rh)),
                                    EvenDown(ShortHeight)>>)

get_format_dimensions(fmt, ratio) ==
    IF fmt = "original" THEN Return(<<>>)
    ELSE IF fmt = "short" THEN Return(<<ShortWidth, ShortHeight>>)
    ELSE IF fmt = "square" THEN Return(<<ShortWidth, ShortWidth>>)
    ELSE IF fmt = "custom" /\ Truthy(ratio) THEN CustomDimensions(ratio.val)
    ELSE Return(<<>>)

\* `if dims:` in the callers: None is falsy, every pair is truthy
NoResize(out) == out.kind = "return" /\ out.dims = <<>>

-----------------------------------------------------------------------------
(* Inputs of the dimension resolver *)

MaxRatioLen == 5

RatioChars == {"0", "1", "9", "-", "+", " ", "_", ":", "x"}

Strings(chars, n) == UNION {[1..k -> chars] : k \in 0..n}

FormatTags == {"original", "short", "square", "custom"}

\* The tags, and one string that is none of them
Formats == FormatTags \cup {"wide"}

FixedRatios == {None, Some(<<>>), Some(<<"1", ":", "1">>), Some(<<"x">>)}

ResolveDimensions ==
    /\ gfd_pc = "call"
    /\ gfd_out' = get_format_dimensions(output_format, custom_ratio)
    /\ gfd_pc' = "done"
    /\ UNCHANGED <<output_format, custom_ratio, capVars, toolVars, xfVars>>

-----------------------------------------------------------------------------
(* Claims about get_format_dimensions *)

\* A ratio string the resolver is meant to accept: exactly two colon-separated
\* parts, each an integer literal that int() reads, each positive.
WellFormedRatio(ratio) ==
    /\ Truthy(ratio)
    /\ LET parts == SplitOn(ratio.val, ":")
       IN  /\ Len(parts) = 2
           /\ PyInt(parts[1]).ok /\ PyInt(parts[1]).val > 0
           /\ PyInt(parts[2]).ok /\ PyInt(parts[2]).val > 0

EvenAtLeastTwo(n) == n % 2 = 0 /\ n >= 2

\* C1: for short, square and custom with a ratio of two positive integers,
\* the resolver returns a pair whose components are both even and both >= 2.
\* (The claim's second half, that 'original' is the only tag resolving to no
\* resize, is C1_OnlyOriginalNoResize.)
C1_EvenAtLeastTwo ==
    (/\ gfd_pc = "done"
     /\ \/ output_format \in {"short", "square"}
        \/ output_format = "custom" /\ WellFormedRatio(custom_ratio))
    => /\ gfd_out.kind = "return"
       /\ Len(gfd_out.dims) = 2
       /\ EvenAtLeastTwo(gfd_out.dims[1])
       /\ EvenAtLeastTwo(gfd_out.dims[2])

\* The second half of C1: of the four tags only 'original' resolves to no resize.
C1_OnlyOriginalNoResize ==
    (gfd_pc = "done" /\ output_format \in FormatTags /\ NoResize(gfd_out))
    => output_format = "original"

\* C2: custom with a supplied ratio string that is not two colon-separated
\* positive integers fails with an error and returns no dimensions.
C2_MalformedRatioRaises ==
    (/\ gfd_pc = "done"
     /\ output_format = "custom"
     /\ Truthy(custom_ratio)
     /\ ~WellFormedRatio(custom_ratio))
    => gfd_out.kind = "raise"

\* C3: custom with no ratio string (None or empty) fails with an error; it
\* never returns the value the callers read as "no resize".
C3_MissingRatioRaises ==
    (gfd_pc = "done" /\ output_format = "custom" /\ ~Truthy(custom_ratio))
    => gfd_out.kind = "raise" /\ ~NoResize(gfd_out)

-----------------------------------------------------------------------------
(* build_drawtext_filters: text handling *)

\* str.split() with no separator: the maximal runs of non-whitespace
RECURSIVE SplitWords(_, _, _)
SplitWords(s, cur, acc) ==
    IF s = <<>>
    THEN IF cur = <<>> THEN acc ELSE Append(acc, cur)
    ELSE IF IsSpace(s[1])
    THEN SplitWords(Tail(s), <<>>, IF cur = <<>> THEN acc ELSE Append(acc, cur))
    ELSE SplitWords(Tail(s), Append(cur, s[1]), acc)

\* words = caption['text'].strip().split()
CaptionWords(text) == SplitWords(Strip(text), <<>>, <<>>)

\* ' '.join(line_words)
RECURSIVE Join(_)
Join(ws) ==
    IF ws = <<>> THEN <<>>
    ELSE IF Len(ws) = 1 THEN ws[1]
    ELSE ws[1] \o <<" ">> \o Join(Tail(ws))

\* _escape_drawtext: backslash doubled, colon escaped, apostrophe replaced
\* by U+2019, the right single quotation mark (the character "rsquo" here)
EscapeChar(c) ==
    IF c = "\\" THEN <<"\\", "\\">>
    ELSE IF c = ":" THEN <<"\\", ":">>
    ELSE IF c = "'" THEN <<"rsquo">>
    ELSE <<c>>

RECURSIVE _escape_drawtext(_)
_escape_drawtext(text) ==
    IF text = <<>> THEN <<>>
    ELSE EscapeChar(text[1]) \o _escape_drawtext(Tail(text))

-----------------------------------------------------------------------------
(* build_drawtext_filters: style and metrics.  Widths are kept in hundredths *)
(* of a pixel, so that font_size * 0.55 and font_size * 0.28 are integers.   *)

Max(a, b) == IF a >= b THEN a ELSE b

Hundredths == 100
MinFontSize == 16
FontHeightDivisor == 35
AvgCharPct == 55
SpacePct == 28
LineHeightPct == 160
TextHeightPct == 115
box_pad == 10
highlight_pad == 5
Margin == 60
TopPct == 8
CenterPct == 45
BottomPct == 75

\* style.get(key, default)
StyleGet(opt, default) == IF opt.none THEN default ELSE opt.val

font_size ==
    StyleGet(caption_style.font_size,
             Max(MinFontSize, TruncDiv(video_height, FontHeightDivisor)))
position == StyleGet(caption_style.position, "bottom")
karaoke == StyleGet(caption_style.karaoke, TRUE)

avg_char_w == font_size * AvgCharPct          \* hundredths
space_w == font_size * SpacePct               \* hundredths
line_height == TruncDiv(font_size * LineHeightPct, Hundredths)
text_h_est == TruncDiv(font_size * TextHeightPct, Hundredths)
max_text_w == (video_width - Margin) * Hundredths   \* hundredths

y_anchor ==
    IF position = "top" THEN TruncDiv(video_height * TopPct, Hundredths)
    ELSE IF position = "center" THEN TruncDiv(video_height * CenterPct, Hundredths)
    ELSE TruncDiv(video_height * BottomPct, Hundredths)

-----------------------------------------------------------------------------
(* build_drawtext_filters: word wrap *)

\* needed = word_w + (space_w if current_line else 0)
Needed(word_w, current_line) ==
    word_w + (IF current_line # <<>> THEN space_w ELSE 0)

OverflowsBeforeAdding(current_w, needed, current_line) ==
    current_w > max_text_w /\ current_line # <<>>

\* if current_w + needed > max_text_w and current_line
Overflows(current_w, needed, current_line) ==
    current_w + needed > max_text_w /\ current_line # <<>>

\* The word-wrap loop without the trailing append of the line in progress
RECURSIVE WrapLoopNoFlush(_, _, _, _)
WrapLoopNoFlush(words, lines, current_line, current_w) ==
    IF words = <<>>
    THEN lines
    ELSE LET word   == words[1]
             word_w == Len(word) * avg_char_w
             needed == Needed(word_w, current_line)
         IN  IF Overflows(current_w, needed, current_line)
             THEN WrapLoopNoFlush(Tail(words), Append(lines, current_line),
                                  <<word>>, word_w)
             ELSE WrapLoopNoFlush(Tail(words), lines, Append(current_line, word),
                                  current_w + needed)

\* The loop `for word in words`, with its three accumulators, and the
\* trailing `if current_line: lines.append(current_line)`.
RECURSIVE WrapLoop(_, _, _, _)
WrapLoop(words, lines, current_line, current_w) ==
    IF words = <<>>
    THEN IF current_line # <<>> THEN Append(lines, current_line) ELSE lines
    ELSE LET word   == words[1]
             word_w == Len(word) * avg_char_w
             needed == Needed(word_w, current_line)
         IN  IF Overflows(current_w, needed, current_line)
             THEN WrapLoop(Tail(words), Append(lines, current_line), <<word>>, word_w)
             ELSE WrapLoop(Tail(words), lines, Append(current_line, word),
                           current_w + needed)

WrapLines(words) == WrapLoop(words, <<>>, <<>>, 0)

-----------------------------------------------------------------------------
(* build_drawtext_filters: the three layers of one caption *)

\* One chained filter.  `enable` is between(t, lo/den, hi/den).  The fields
\* cap, line, widx and words record where the filter came from (caption
\* position, 0-based line index, 0-based word index, the words drawn); the
\* colour arguments are passed through unchanged and are not kept.
Filter(name, box, border, text, centered, x, y, w, h, enable, c, li, wi, ws) ==
    [filter |-> name, box |-> box, borderw |-> border, text |-> text,
     centered |-> centered, x |-> x, y |-> y, width |-> w, height |-> h,
     enable |-> enable, cap |-> c, line |-> li, widx |-> wi, words |-> ws]

\* enable=f'between(t,{start},{end})'
CaptionWindow(start, end) == [lo |-> start, hi |-> end, den |-> 1]

WordWindowShort(start, duration, word_idx, total_words) ==
    [lo  |-> start * (total_words + 1) + word_idx * duration,
     hi  |-> start * (total_words + 1) + (word_idx + 1) * duration,
     den |-> total_words + 1]

\* ws = start + (word_idx / total_words) * duration
\* we = start + ((word_idx + 1) / total_words) * duration
\* as exact fractions over total_words
WordWindow(start, duration, word_idx, total_words) ==
    [lo  |-> start * total_words + word_idx * duration,
     hi  |-> start * total_words + (word_idx + 1) * duration,
     den |-> total_words]

\* ffmpeg's between(t, min, max): 1 when min <= t <= max.  t is tn/td.
between(tn, td, win) ==
    /\ win.lo * td <= tn * win.den
    /\ tn * win.den <= win.hi * td

\* LAYER 1: one drawtext per line, transparent text with a background box
Layer1(lines, c, start, end) ==
    [i \in 1..Len(lines) |->
        Filter("drawtext", TRUE, 0, _escape_drawtext(Join(lines[i])), TRUE, 0,
               y_anchor + (i - 1) * line_height, 0, 0,
               CaptionWindow(start, end), c, i - 1, -1, lines[i])]

\* sum(len(w) * avg_char_w for w in line_words)
RECURSIVE SumWordWidths(_)
SumWordWidths(line_words) ==
    IF line_words = <<>> THEN 0
    ELSE Len(line_words[1]) * avg_char_w + SumWordWidths(Tail(line_words))

LineWidth(line_words) ==
    SumWordWidths(line_words) + Max(0, Len(line_words) - 1) * space_w

\* line_x = max(box_pad, int((video_width - line_w) / 2)), in pixels
LineX(line_words) ==
    Max(box_pad, TruncDiv(video_width * Hundredths - LineWidth(line_words),
                          2 * Hundredths))

\* The loop `for word in line_words` of layer 2; cur_x is in hundredths
RECURSIVE HighlightWords(_, _, _, _, _, _, _, _)
HighlightWords(line_words, c, li, word_idx, cur_x, start, duration, total_words) ==
    IF line_words = <<>> THEN <<>>
    ELSE LET word   == line_words[1]
             word_w == Len(word) * avg_char_w
             y      == y_anchor + li * line_height
         IN  <<Filter("drawbox", FALSE, 0, <<>>, FALSE,
                      TruncDiv(cur_x - highlight_pad * Hundredths, Hundredths),
                      y - highlight_pad,
                      TruncDiv(word_w + 2 * highlight_pad * Hundredths, Hundredths),
                      text_h_est + 2 * highlight_pad,
                      WordWindow(start, duration, word_idx, total_words),
                      c, li, word_idx, <<word>>)>>
             \o HighlightWords(Tail(line_words), c, li, word_idx + 1,
                               cur_x + word_w + space_w, start, duration, total_words)

\* The loop `for li, line_words in enumerate(lines)` of layer 2; word_idx
\* runs on across the lines
RECURSIVE HighlightLines(_, _, _, _, _, _, _)
HighlightLines(lines, c, li, word_idx, start, duration, total_words) ==
    IF lines = <<>> THEN <<>>
    ELSE HighlightWords(lines[1], c, li, word_idx, LineX(lines[1]) * Hundredths,
                        start, duration, total_words)
         \o HighlightLines(Tail(lines), c, li + 1, word_idx + Len(lines[1]),
                           start, duration, total_words)

\* LAYER 2: if karaoke and total_words > 0 and duration > 0
Layer2(lines, c, start, end, total_words) ==
    IF karaoke /\ total_words > 0 /\ end - start > 0
    THEN HighlightLines(lines, c, 0, 0, start, end - start, total_words)
    ELSE <<>>

\* LAYER 3: one drawtext per line, the visible text with a border
Layer3(lines, c, start, end) ==
    [i \in 1..Len(lines) |->
        Filter("drawtext", FALSE, 2, _escape_drawtext(Join(lines[i])), TRUE, 0,
               y_anchor + (i - 1) * line_height, 0, 0,
               CaptionWindow(start, end), c, i - 1, -1, lines[i])]

CaptionFiltersTextFirst(c, caption) ==
    LET words == CaptionWords(caption.text)
        lines == WrapLines(words)
    IN  Layer3(lines, c, caption.start, caption.end)
        \o Layer1(lines, c, caption.start, caption.end)
        \o Layer2(lines, c, caption.start, caption.end, Len(words))

\* The body of `for caption in captions` once words is known to be non-empty
CaptionFilters(c, caption) ==
    LET words == CaptionWords(caption.text)
        lines == WrapLines(words)
    IN  Layer1(lines, c, caption.start, caption.end)
        \o Layer2(lines, c, caption.start, caption.end, Len(words))
        \o Layer3(lines, c, caption.start, caption.end)

-----------------------------------------------------------------------------
(* build_drawtext_filters: the call *)

\* if not captions: return stream
BdfNoCaptions ==
    /\ bdf_pc = "entry"
    /\ captions = <<>>
    /\ bdf_pc' = "done"
    /\ UNCHANGED <<captions, video_width, video_height, caption_style, cap_i, stream,
                   dimVars, toolVars, xfVars>>

BdfEnterLoop ==
    /\ bdf_pc = "entry"
    /\ captions # <<>>
    /\ bdf_pc' = "loop"
    /\ cap_i' = 1
    /\ UNCHANGED <<captions, video_width, video_height, caption_style, stream,
                   dimVars, toolVars, xfVars>>

\* if not words: continue
BdfSkipCaption ==
    /\ bdf_pc = "loop"
    /\ cap_i <= Len(captions)
    /\ CaptionWords(captions[cap_i].text) = <<>>
    /\ cap_i' = cap_i + 1
    /\ UNCHANGED <<bdf_pc, captions, video_width, video_height, caption_style, stream,
                   dimVars, toolVars, xfVars>>

BdfDrawCaption ==
    /\ bdf_pc = "loop"
    /\ cap_i <= Len(captions)
    /\ CaptionWords(captions[cap_i].text) # <<>>
    /\ stream' = stream \o CaptionFilters(cap_i, captions[cap_i])
    /\ cap_i' = cap_i + 1
    /\ UNCHANGED <<bdf_pc, captions, video_width, video_height, caption_style,
                   dimVars, toolVars, xfVars>>

\* return stream
BdfReturn ==
    /\ bdf_pc = "loop"
    /\ cap_i > Len(captions)
    /\ bdf_pc' = "done"
    /\ UNCHANGED <<captions, video_width, video_height, caption_style, cap_i, stream,
                   dimVars, toolVars, xfVars>>

-----------------------------------------------------------------------------
(* Inputs of build_drawtext_filters *)

MaxTextLen == 5
MaxTime == 2
MaxCaptions == 2

TextChars == {"a", "b", " "}

Caption(text, start, end) == [text |-> text, start |-> start, end |-> end]

\* One caption, every short text and every pair of times
RichCaptions ==
    {Caption(t, s, e) : t \in Strings(TextChars, MaxTextLen),
                        s \in 0..MaxTime, e \in 0..MaxTime}

\* Captions for the longer lists: empty and blank text, one word, several
\* words with characters that are escaped; a positive and a zero duration
SampleTexts ==
    {<<>>, <<" ", " ">>, <<"a">>, <<" ", "a", ":", "b", " ", " ", "c", "'">>,
     <<"a", " ", "b", " ", "a", "b", "c", " ", "d">>}
SampleCaptions ==
    {Caption(t, 0, 2) : t \in SampleTexts} \cup {Caption(<<"a", " ", "b">>, 1, 1)}

RECURSIVE ListsOf(_, _)
ListsOf(S, n) ==
    IF n = 0 THEN {<<>>}
    ELSE LET shorter == ListsOf(S, n - 1)
         IN  shorter \cup {Append(l, x) : l \in {m \in shorter : Len(m) = n - 1}, x \in S}

CaptionLists ==
    {<<c>> : c \in RichCaptions} \cup ListsOf(SampleCaptions, MaxCaptions)

\* (video_width, video_height)
Canvases == {<<62, 720>>, <<63, 100>>, <<100, 720>>}

Style(fs, pos, kar) == [font_size |-> fs, position |-> pos, karaoke |-> kar]

\* caption_style = None (every default), and three explicit styles
Styles ==
    {Style(None, None, None),
     Style(Some(1), Some("top"), None),
     Style(Some(1), Some("center"), Some(FALSE)),
     Style(Some(2), None, Some(TRUE))}

-----------------------------------------------------------------------------
(* extract_clip and create_supercut *)

Returned(msg) == [kind |-> "return", msg |-> msg, exc |-> "-"]
Raised(e) == [kind |-> "raise", msg |-> "-", exc |-> e]
NotEnded == [kind |-> "none", msg |-> "-", exc |-> "-"]

otherThanTool == <<dimVars, capVars, xfVars>>

\* if not os.path.exists(file_path): return "Error: File not found ..."
ToolFileMissing ==
    /\ tool_pc = "entry"
    /\ ~args.file_exists
    /\ tool_out' = Returned("Error: File not found")
    /\ tool_pc' = "done"
    /\ UNCHANGED <<tool, args, dims, effects, otherThanTool>>

\* create_supercut only: if not segments: return "Error: No segments provided."
ToolNoSegments ==
    /\ tool_pc = "entry"
    /\ args.file_exists
    /\ tool = "create_supercut"
    /\ args.segments = <<>>
    /\ tool_out' = Returned("Error: No segments provided.")
    /\ tool_pc' = "done"
    /\ UNCHANGED <<tool, args, dims, effects, otherThanTool>>

\* The output path is named and the try block entered
ToolEnterTry ==
    /\ tool_pc = "entry"
    /\ args.file_exists
    /\ tool = "create_supercut" => args.segments # <<>>
    /\ tool_pc' = "resolve"
    /\ UNCHANGED <<tool, args, dims, effects, tool_out, otherThanTool>>

\* dims = get_format_dimensions(output_format, custom_ratio)
ToolResolveDims ==
    /\ tool_pc = "resolve"
    /\ LET r == get_format_dimensions(args.output_format, args.custom_ratio)
       IN  /\ r.kind = "return"
           /\ dims' = r.dims
    /\ tool_pc' = "graph"
    /\ UNCHANGED <<tool, args, effects, tool_out, otherThanTool>>

\* The ValueError or ZeroDivisionError of get_format_dimensions is no
\* ffmpeg.Error: the except clause does not take it and it leaves the tool
ToolResolveRaises ==
    /\ tool_pc = "resolve"
    /\ LET r == get_format_dimensions(args.output_format, args.custom_ratio)
       IN  /\ r.kind = "raise"
           /\ tool_out' = Raised(r.exc)
    /\ tool_pc' = "done"
    /\ UNCHANGED <<tool, args, dims, effects, otherThanTool>>

\* ffmpeg.input (one per segment, then ffmpeg.concat in create_supercut) and,
\* `if dims:`, create_blurred_background_filter.  These only build the graph.
ToolBuildGraph ==
    /\ tool_pc = "graph"
    /\ effects' = IF dims # <<>> THEN effects \cup {"resize"} ELSE effects
    /\ tool_pc' = "captions"
    /\ UNCHANGED <<tool, args, dims, tool_out, otherThanTool>>

\* `if captions:` is false
ToolNoCaptions ==
    /\ tool_pc = "captions"
    /\ ~Truthy(args.captions)
    /\ tool_pc' = "run"
    /\ UNCHANGED <<tool, args, dims, effects, tool_out, otherThanTool>>

\* ffmpeg.probe finds a video stream; build_drawtext_filters chains the filters
ToolProbeVideo ==
    /\ tool_pc = "captions"
    /\ Truthy(args.captions)
    /\ effects' = effects \cup {"probe", "drawtext"}
    /\ tool_pc' = "run"
    /\ UNCHANGED <<tool, args, dims, tool_out, otherThanTool>>

\* ffmpeg.probe succeeds on a source with no video stream: next() on the
\* exhausted generator raises StopIteration, which no except clause takes
ToolProbeNoVideo ==
    /\ tool_pc = "captions"
    /\ Truthy(args.captions)
    /\ effects' = effects \cup {"probe"}
    /\ tool_out' = Raised("StopIteration")
    /\ tool_pc' = "done"
    /\ UNCHANGED <<tool, args, dims, otherThanTool>>

\* except ffmpeg.Error as e, the two tools' messages for stderr text or none
ErrorMessage(t, stderr) ==
    IF t = "extract_clip"
    THEN IF stderr = "text" THEN "Error cutting video: <stderr>"
         ELSE "Error cutting video: "
    ELSE IF stderr = "text" THEN "FFmpeg Error: <stderr>"
         ELSE "FFmpeg Error: No details"

\* ffmpeg.probe fails with ffmpeg.Error, which the except clause takes
ToolProbeFails ==
    /\ tool_pc = "captions"
    /\ Truthy(args.captions)
    /\ effects' = effects \cup {"probe"}
    /\ \E stderr \in {"text", "empty"} :
           tool_out' = Returned(ErrorMessage(tool, stderr))
    /\ tool_pc' = "done"
    /\ UNCHANGED <<tool, args, dims, otherThanTool>>

\* ffmpeg.output(...).overwrite_output().run(quiet=True) succeeds
ToolRunOk ==
    /\ tool_pc = "run"
    /\ effects' = effects \cup {"run", "write"}
    /\ tool_out' = Returned("Success!")
    /\ tool_pc' = "done"
    /\ UNCHANGED <<tool, args, dims, otherThanTool>>

\* The encode fails with ffmpeg.Error
ToolRunFails ==
    /\ tool_pc = "run"
    /\ effects' = effects \cup {"run"}
    /\ \E stderr \in {"text", "empty"} :
           tool_out' = Returned(ErrorMessage(tool, stderr))
    /\ tool_pc' = "done"
    /\ UNCHANGED <<tool, args, dims, otherThanTool>>

-----------------------------------------------------------------------------
(* build_crossfade_concat *)

otherThanXf == <<dimVars, capVars, toolVars>>

\* durations.append(end - start)
Duration(seg) == seg[2] - seg[1]

\* video = clips_v[0] on an empty list
XfNoSegments ==
    /\ xf_pc = "entry"
    /\ xf_segments = <<>>
    /\ xf_out' = Raised("IndexError")
    /\ xf_pc' = "done"
    /\ UNCHANGED <<xf_segments, transition_duration, xf_i, cumulative, xfades, otherThanXf>>

\* The clips are cut; video = clips_v[0]; cumulative = durations[0]
XfStart ==
    /\ xf_pc = "entry"
    /\ xf_segments # <<>>
    /\ cumulative' = Duration(xf_segments[1])
    /\ xf_i' = 1
    /\ xf_pc' = "loop"
    /\ UNCHANGED <<xf_segments, transition_duration, xfades, xf_out, otherThanXf>>

\* One pass of `for i in range(1, len(clips_v))`; xf_i is the 0-based i
XfStep ==
    /\ xf_pc = "loop"
    /\ xf_i < Len(xf_segments)
    /\ xfades' = Append(xfades, cumulative - transition_duration)
    /\ cumulative' = cumulative + Duration(xf_segments[xf_i + 1]) - transition_duration
    /\ xf_i' = xf_i + 1
    /\ UNCHANGED <<xf_pc, xf_segments, transition_duration, xf_out, otherThanXf>>

\* return video, audio
XfReturn ==
    /\ xf_pc = "loop"
    /\ xf_i >= Len(xf_segments)
    /\ xf_out' = Returned("video, audio")
    /\ xf_pc' = "done"
    /\ UNCHANGED <<xf_segments, transition_duration, xf_i, cumulative, xfades, otherThanXf>>

-----------------------------------------------------------------------------
(* Inputs of the tools and of the crossfade assembler *)

MaxSegments == 2

\* (start, end) pairs; nothing in the tools orders or bounds them
TimePairs == {<<s, e>> : s \in 0..MaxTime, e \in 0..MaxTime}

ToolRatios ==
    {None, Some(<<>>), Some(<<"1", ":", "1">>), Some(<<"1", ":", "0">>),
     Some(<<"-", "1", ":", "1">>), Some(<<"x", ":", "1">>), Some(<<"1">>),
     Some(<<"0", ":", "0">>)}

\* captions: None, an empty list, or a list of well-formed captions
ToolCaptions == {None, Some(<<>>), Some(<<Caption(<<"a">>, 0, 1)>>)}

Args(ex, fmt, ratio, segs, caps) ==
    [file_exists |-> ex, output_format |-> fmt, custom_ratio |-> ratio,
     segments |-> segs, captions |-> caps]

NoArgs == Args(FALSE, "original", None, <<>>, None)

\* Times of the crossfade are in half seconds: the default
\* transition_duration=0.5 is 1
TransitionDurations == {1, 2}

-----------------------------------------------------------------------------
(* The specifications: one per function, the other functions' state idle *)

InitDims ==
    /\ gfd_pc = "call"
    /\ \/ /\ output_format = "custom"
          /\ custom_ratio \in {None} \cup {Some(s) : s \in Strings(RatioChars, MaxRatioLen)}
       \/ /\ output_format \in Formats
          /\ custom_ratio \in FixedRatios
    /\ gfd_out = NoOutcome
    /\ bdf_pc = "idle"
    /\ captions = <<>>
    /\ video_width = 0
    /\ video_height = 0
    /\ caption_style = Style(None, None, None)
    /\ cap_i = 0
    /\ stream = <<>>
    /\ tool_pc = "idle"
    /\ tool = "extract_clip"
    /\ args = NoArgs
    /\ dims = <<>>
    /\ effects = {}
    /\ tool_out = NotEnded
    /\ xf_pc = "idle"
    /\ xf_segments = <<>>
    /\ transition_duration = 0
    /\ xf_i = 0
    /\ cumulative = 0
    /\ xfades = <<>>
    /\ xf_out = NotEnded

NextDims == ResolveDimensions

SpecDims == InitDims /\ [][NextDims]_vars

InitCaptions ==
    /\ bdf_pc = "entry"
    /\ captions \in CaptionLists
    /\ \E cv \in Canvases : video_width = cv[1] /\ video_height = cv[2]
    /\ caption_style \in Styles
    /\ cap_i = 0
    /\ stream = <<>>
    /\ gfd_pc = "idle"
    /\ output_format = "original"
    /\ custom_ratio = None
    /\ gfd_out = NoOutcome
    /\ tool_pc = "idle"
    /\ tool = "extract_clip"
    /\ args = NoArgs
    /\ dims = <<>>
    /\ effects = {}
    /\ tool_out = NotEnded
    /\ xf_pc = "idle"
    /\ xf_segments = <<>>
    /\ transition_duration = 0
    /\ xf_i = 0
    /\ cumulative = 0
    /\ xfades = <<>>
    /\ xf_out = NotEnded

NextCaptions ==
    \/ BdfNoCaptions
    \/ BdfEnterLoop
    \/ BdfSkipCaption
    \/ BdfDrawCaption
    \/ BdfReturn

SpecCaptions == InitCaptions /\ [][NextCaptions]_vars

InitTools ==
    /\ tool_pc = "entry"
    /\ tool \in {"extract_clip", "create_supercut"}
    /\ \E ex \in BOOLEAN, fmt \in Formats, ratio \in ToolRatios, caps \in ToolCaptions :
         \E segs \in IF tool = "extract_clip"
                     THEN {<<p>> : p \in TimePairs}
                     ELSE ListsOf(TimePairs, MaxSegments) :
            args = Args(ex, fmt, ratio, segs, caps)
    /\ dims = <<>>
    /\ effects = {}
    /\ tool_out = NotEnded
    /\ gfd_pc = "idle"
    /\ output_format = "original"
    /\ custom_ratio = None
    /\ gfd_out = NoOutcome
    /\ bdf_pc = "idle"
    /\ captions = <<>>
    /\ video_width = 0
    /\ video_height = 0
    /\ caption_style = Style(None, None, None)
    /\ cap_i = 0
    /\ stream = <<>>
    /\ xf_pc = "idle"
    /\ xf_segments = <<>>
    /\ transition_duration = 0
    /\ xf_i = 0
    /\ cumulative = 0
    /\ xfades = <<>>
    /\ xf_out = NotEnded

NextTools ==
    \/ ToolFileMissing
    \/ ToolNoSegments
    \/ ToolEnterTry
    \/ ToolResolveDims
    \/ ToolResolveRaises
    \/ ToolBuildGraph
    \/ ToolNoCaptions
    \/ ToolProbeVideo
    \/ ToolProbeNoVideo
    \/ ToolProbeFails
    \/ ToolRunOk
    \/ ToolRunFails

SpecTools == InitTools /\ [][NextTools]_vars

InitCrossfade ==
    /\ xf_pc = "entry"
    /\ xf_segments \in ListsOf(TimePairs, MaxSegments)
    /\ transition_duration \in TransitionDurations
    /\ xf_i = 0
    /\ cumulative = 0
    /\ xfades = <<>>
    /\ xf_out = NotEnded
    /\ gfd_pc = "idle"
    /\ output_format = "original"
    /\ custom_ratio = None
    /\ gfd_out = NoOutcome
    /\ bdf_pc = "idle"
    /\ captions = <<>>
    /\ video_width = 0
    /\ video_height = 0
    /\ caption_style = Style(None, None, None)
    /\ cap_i = 0
    /\ stream = <<>>
    /\ tool_pc = "idle"
    /\ tool = "extract_clip"
    /\ args = NoArgs
    /\ dims = <<>>
    /\ effects = {}
    /\ tool_out = NotEnded

NextCrossfade ==
    \/ XfNoSegments
    \/ XfStart
    \/ XfStep
    \/ XfReturn

SpecCrossfade == InitCrossfade /\ [][NextCrossfade]_vars

-----------------------------------------------------------------------------
(* Claims about build_drawtext_filters *)

IsBackground(op) == op.filter = "drawtext" /\ op.box
IsHighlight(op) == op.filter = "drawbox"
IsText(op) == op.filter = "drawtext" /\ ~op.box

\* The filters chained for the caption at position c, in stream order
FiltersOf(c) == SelectSeq(stream, LAMBDA op : op.cap = c)
HighlightsOf(c) == SelectSeq(stream, LAMBDA op : op.cap = c /\ IsHighlight(op))

\* The captions the loop has gone past
Processed == {c \in 1..Len(captions) : bdf_pc \in {"loop", "done"} /\ c < cap_i}

\* C4: every line of two or more words has estimated width (the words'
\* len * avg_char_w plus space_w between neighbours) at most
\* video_width - 60; only a one-word line may be wider.
C4_MultiWordLinesFit ==
    \A i \in 1..Len(stream) :
        (stream[i].filter = "drawtext" /\ Len(stream[i].words) >= 2)
        => LineWidth(stream[i].words) <= max_text_w

\* A caption wrapped so that one line holds two words and fits, and another
\* holds one word that is wider than the limit
C4_Witness ==
    /\ bdf_pc = "done"
    /\ \E i, j \in 1..Len(stream) :
        /\ IsBackground(stream[i]) /\ IsBackground(stream[j])
        /\ stream[i].cap = stream[j].cap
        /\ Len(stream[i].words) >= 2
        /\ Len(stream[j].words) = 1
        /\ LineWidth(stream[j].words) > max_text_w

\* The sum of the windows' spans, as a fraction <<numerator, denominator>>
RECURSIVE SpanSum(_)
SpanSum(hs) ==
    IF hs = <<>> THEN <<0, 1>>
    ELSE LET rest == SpanSum(Tail(hs))
             e    == hs[1].enable
         IN  <<(e.hi - e.lo) * rest[2] + rest[1] * e.den, e.den * rest[2]>>

Instants ==
    {<<stream[i].enable.lo, stream[i].enable.den>> : i \in 1..Len(stream)}
    \cup {<<stream[i].enable.hi, stream[i].enable.den>> : i \in 1..Len(stream)}

\* C6: word windows are half-open, so at no instant, the boundaries between
\* consecutive windows included, are the highlights of two different words of
\* one caption enabled together.
C6_NoTwoHighlightsTogether ==
    \A i, j \in 1..Len(stream) :
        (/\ i # j
         /\ IsHighlight(stream[i]) /\ IsHighlight(stream[j])
         /\ stream[i].cap = stream[j].cap)
        => \A t \in Instants :
               ~(between(t[1], t[2], stream[i].enable)
                 /\ between(t[1], t[2], stream[j].enable))

Rank(op) == IF IsBackground(op) THEN 1 ELSE IF IsHighlight(op) THEN 2 ELSE 3

\* The number of words of a text: the places where a non-blank character
\* follows a blank or begins the text
WordCount(text) ==
    Cardinality({i \in 1..Len(text) :
                    ~IsSpace(text[i]) /\ (i = 1 \/ IsSpace(text[i - 1]))})

\* C10: the stream's filters are, in caption order, one block per caption
\* with non-blank text: its background boxes (one per line, in line order),
\* then its highlights (only with karaoke on, words and a positive
\* duration), then its visible text (one per line); a caption with blank
\* text contributes nothing.
C10_BlocksInOrder ==
    /\ \A i, j \in 1..Len(stream) :
        i < j =>
           /\ stream[i].cap <= stream[j].cap
           /\ stream[i].cap = stream[j].cap =>
                /\ Rank(stream[i]) <= Rank(stream[j])
                /\ Rank(stream[i]) = Rank(stream[j]) =>
                     IF IsHighlight(stream[i])
                     THEN stream[i].widx < stream[j].widx
                     ELSE stream[i].line < stream[j].line
    /\ \A i \in 1..Len(stream) : stream[i].cap \in Processed
    /\ \A c \in Processed :
        LET ops == FiltersOf(c)
            bg  == SelectSeq(ops, IsBackground)
            hl  == SelectSeq(ops, IsHighlight)
            tx  == SelectSeq(ops, IsText)
            N   == WordCount(captions[c].text)
        IN  IF N = 0 THEN ops = <<>>
            ELSE /\ Len(bg) >= 1
                 /\ Len(tx) = Len(bg)
                 /\ \A l \in 1..Len(bg) :
                        /\ bg[l].line = l - 1 /\ tx[l].line = l - 1
                        /\ bg[l].text = tx[l].text
                 /\ Len(hl) = IF karaoke /\ captions[c].end - captions[c].start > 0
                              THEN N ELSE 0

\* A list whose first caption is blank and skipped and whose second is
\* drawn with two or more lines and with highlights
C10_Witness ==
    /\ bdf_pc = "done"
    /\ Len(captions) >= 2
    /\ captions[1].text # <<>>
    /\ WordCount(captions[1].text) = 0
    /\ \E i, j, k \in 1..Len(stream) :
        /\ stream[i].cap = 2 /\ stream[j].cap = 2 /\ stream[k].cap = 2
        /\ IsBackground(stream[i]) /\ stream[i].line >= 1
        /\ IsHighlight(stream[j])
        /\ IsText(stream[k])

\* The words of a sequence of filters, one after the other
RECURSIVE WordsOf(_)
WordsOf(ops) ==
    IF ops = <<>> THEN <<>> ELSE ops[1].words \o WordsOf(Tail(ops))

\* C11: for every caption with at least one word the word-wrap yields only
\* non-empty lines, and the lines one after the other are exactly the
\* caption's whitespace-split words: none dropped, duplicated, reordered or
\* split, whatever the width and font size.  The lines are read off the
\* background and the text layer, and the highlights, when drawn, walk the
\* same words in the same order.
C11_WrapKeepsWords ==
    \A c \in Processed :
        LET ops   == FiltersOf(c)
            bg    == SelectSeq(ops, IsBackground)
            tx    == SelectSeq(ops, IsText)
            hl    == SelectSeq(ops, IsHighlight)
            words == CaptionWords(captions[c].text)
        IN  words # <<>> =>
              /\ \A l \in 1..Len(bg) : bg[l].words # <<>>
              /\ \A l \in 1..Len(tx) : tx[l].words # <<>>
              /\ WordsOf(bg) = words
              /\ WordsOf(tx) = words
              /\ hl # <<>> => WordsOf(hl) = words

\* A caption of three or more words, not all alike, drawn on a canvas whose
\* limit is smaller than every word, each word a line of its own
C11_Witness ==
    /\ bdf_pc = "done"
    /\ \E c \in Processed :
        LET words == CaptionWords(captions[c].text)
            bg    == SelectSeq(FiltersOf(c), IsBackground)
        IN  /\ Len(words) >= 3
            /\ \E k \in 2..Len(words) : words[k] # words[1]
            /\ \A k \in 1..Len(words) : Len(words[k]) * avg_char_w > max_text_w
            /\ Len(bg) = Len(words)

-----------------------------------------------------------------------------
(* Claims about the tools *)

\* C7: every call of extract_clip and create_supercut ends by returning a
\* string; no failure leaves the call as an exception.
C7_AlwaysReturnsString ==
    tool_pc = "done" => tool_out.kind = "return"

\* The inputs the tools are to reject: a missing source, custom without a
\* well-formed ratio, an empty segment list, a start time >= its end time
InvalidInput ==
    \/ ~args.file_exists
    \/ args.output_format = "custom" /\ ~WellFormedRatio(args.custom_ratio)
    \/ tool = "create_supercut" /\ args.segments = <<>>
    \/ \E k \in 1..Len(args.segments) : args.segments[k][1] >= args.segments[k][2]

\* C8: on invalid input the call ends in a validation error and neither the
\* probe nor the encode is reached, and no output file is written.
C8_ValidationBeforeExternalWork ==
    (tool_pc = "done" /\ InvalidInput)
    => /\ \/ tool_out \in {Returned("Error: File not found"),
                           Returned("Error: No segments provided.")}
          \/ tool_out.kind = "raise" /\ tool_out.exc \in {"ValueError", "ZeroDivisionError"}
       /\ effects \cap {"probe", "run", "write"} = {}

-----------------------------------------------------------------------------
(* Claims about build_crossfade_concat *)

\* C9: with a segment shorter than transition_duration the assembly ends in
\* a failure: it returns no video/audio pair and chains no cross-dissolve at
\* a negative offset.  (Stated here for two or more well-formed segments,
\* end > start, so that a cross-dissolve is due.)
C9_ShortSegmentFails ==
    (/\ xf_pc = "done"
     /\ Len(xf_segments) >= 2
     /\ \A k \in 1..Len(xf_segments) : Duration(xf_segments[k]) > 0
     /\ \E k \in 1..Len(xf_segments) : Duration(xf_segments[k]) < transition_duration)
    => /\ xf_out.kind = "raise"
       /\ \A k \in 1..Len(xfades) : xfades[k] >= 0

====
